---- MODULE Spec2Model ----
(***************************************************************************)
(* Model of DB-maintenance-funcs.py: one run of the geodatabase            *)
(* maintenance script.  The script resolves a connection (buildCxn), runs  *)
(* four maintenance functions in a fixed order inside one try block and    *)
(* removes the connection file when it built it itself.                    *)
(*                                                                         *)
(* The geodatabase engine (arcpy) and the filesystem are the environment:  *)
(* every engine tool either returns or raises, os.remove returns, raises   *)
(* PermissionError or raises another OSError, and the connection files can *)
(* be removed by somebody else while the run is in progress.               *)
(***************************************************************************)
EXTENDS Integers, Sequences, FiniteSets, TLC

\* Longest list arcpy.da.ListVersions() returns in the model.
MaxVersions == 2

(***************************************************************************)
(* Configuration records (config.json[env]).                               *)
(***************************************************************************)
Keys == {"sde_cxn", "rdbms", "instance", "auth", "un", "pw", "db_name", "version"}

\* The list of keys read on line 56, in the order they are read.
CxnVars == <<"rdbms", "instance", "auth", "un", "pw", "db_name">>

\* A JSON value is either the empty string (falsy) or a non-empty one.
Vals == {"", "x"}

\* Every dict over a subset of the keys: a key can be missing, empty or set.
Configs == UNION {[K -> Vals] : K \in SUBSET Keys}

\* Python truthiness of a config value (if cfg["sde_cxn"], all(db_cxn_vars)).
Truthy(v) == v # ""

\* The two connection files a run can work with: the one cfg["sde_cxn"]
\* names and the one CreateDatabaseConnection writes to sde_cxn_fldr.
SuppliedPath == "supplied.sde"
CreatedPath == "un@db_name.sde"
NoPath == "unbound"

(***************************************************************************)
(* Logging: a record is <<level, message>>.                                *)
(***************************************************************************)
Info(m) == <<"INFO", m>>
Warn(m) == <<"WARNING", m>>
Error(m) == <<"ERROR", m>>

\* One call of an arcpy tool: its name, the option that matters, its list
\* argument and whether it returned ("ok") or raised ("error").
ToolCall(t, o, a, r) == [tool |-> t, opt |-> o, arg |-> a, result |-> r]

EngineResults == {"ok", "error"}

(***************************************************************************)
(* buildCxn(cfg).  engine is the outcome of CreateDatabaseConnection.      *)
(* The result says how the function ends: exc = "none" (it returns         *)
(* (sde, built)), "SystemExit" (sys.exit(1)), or the exception that        *)
(* leaves the function.                                                    *)
(***************************************************************************)
BuildResult(e, s, b, l, t) == [exc |-> e, sde |-> s, built |-> b, log |-> l, tools |-> t]

KeyMissingMsg == Error("Key missing from config file")

\* Variant of newConnection: the except clause on line 81 also gives sde a
\* value, so the function returns after an engine error.
newConnectionReturnsAfterError(engine, building) ==
    IF engine = "ok"
    THEN BuildResult("none", CreatedPath, 1,
                     building \o <<Info("Using connection string")>>,
                     <<ToolCall("CreateDatabaseConnection", "", <<>>, "ok")>>)
    ELSE BuildResult("none", CreatedPath, 0,
                     building \o <<Error("CreateDatabaseConnection failed")>>,
                     <<ToolCall("CreateDatabaseConnection", "", <<>>, "error")>>)

\* Lines 68-82 and the return on line 98: the new connection is created.
\* When the engine raises, line 82 logs the error and execution falls
\* through to line 98, where sde was never assigned.
newConnection(engine, building) ==
    IF engine = "ok"
    THEN BuildResult("none", CreatedPath, 1,
                     building \o <<Info("Using connection string")>>,
                     <<ToolCall("CreateDatabaseConnection", "", <<>>, "ok")>>)
    ELSE BuildResult("UnboundLocalError", NoPath, 0,
                     building \o <<Error("CreateDatabaseConnection failed")>>,
                     <<ToolCall("CreateDatabaseConnection", "", <<>>, "error")>>)

buildCxn(c, engine) ==
    LET start == <<Info("Starting to build connection file")>> IN
    IF \E i \in 1..Len(CxnVars) : CxnVars[i] \notin DOMAIN c
    THEN \* line 56 is outside the try: the KeyError leaves the function
         BuildResult("KeyError", NoPath, 0, start, <<>>)
    ELSE IF "sde_cxn" \notin DOMAIN c
    THEN \* line 58 raises KeyError, caught on line 89
         BuildResult("SystemExit", NoPath, 0, start \o <<KeyMissingMsg>>, <<>>)
    ELSE IF Truthy(c["sde_cxn"])
    THEN BuildResult("none", SuppliedPath, 0,
                     start \o <<Info("Using connection string")>>, <<>>)
    ELSE IF \A i \in 1..Len(CxnVars) : Truthy(c[CxnVars[i]])
    THEN LET building == start \o <<Info("Buidling new connection string")>> IN
         IF "version" \notin DOMAIN c
         THEN \* line 67 raises KeyError, caught on line 89
              BuildResult("SystemExit", NoPath, 0, building \o <<KeyMissingMsg>>, <<>>)
         ELSE newConnection(engine, building)
    ELSE BuildResult("SystemExit", NoPath, 0,
                     start \o <<Error("Missing required information to connect to database")>>,
                     <<>>)

(***************************************************************************)
(* reconcileVersions(sde).  listed is what arcpy.da.ListVersions() returns *)
(* (listing = "error": it raises), r1 and r2 are the outcomes of the two   *)
(* ReconcileVersions calls.                                                *)
(***************************************************************************)
VersionNames == {"SDE.DEFAULT", "sde.default", "GIS.edits"}

\* str.lower() on a version name.
Lower(n) ==
    CASE n = "SDE.DEFAULT" -> "sde.default"
      [] n = "sde.default" -> "sde.default"
      [] n = "GIS.edits" -> "gis.edits"

\* Every list ListVersions can return, up to MaxVersions names.
VersionLists == UNION {[1..n -> VersionNames] : n \in 0..MaxVersions}

IsChild(n) == Lower(n) # "sde.default"

\* Lines 121-122: the names of the listed versions other than sde.default.
verList(listed) == SelectSeq(listed, IsChild)

FuncResult(e, l, t) == [exc |-> e, log |-> l, tools |-> t]

\* Variant of SecondPassOption: the second call copied from the first
\* without changing its post option.
SecondPassNoPost == "NO_POST"

\* The post option of the second ReconcileVersions call (line 151).
SecondPassOption == "POST"

reconcileVersions(listing, listed, r1, r2) ==
    LET start == <<Info("Starting to reconcile versions"), Info("Listing all child versions")>>
        vl == verList(listed)
        first == ToolCall("ReconcileVersions", "NO_POST", vl, r1)
        second == ToolCall("ReconcileVersions", SecondPassOption, vl, r2)
        log1 == start \o <<Info("versions"), Info("Starting the 1st reconciliation")>>
        log2 == log1 \o <<Info("Reconciling part 1 complete"),
                          Info("Starting the 2nd reconciliation with post")>>
    IN  IF listing = "error" THEN FuncResult("ExecuteError", start, <<>>)
        ELSE IF r1 = "error" THEN FuncResult("ExecuteError", log1, <<first>>)
        ELSE IF r2 = "error" THEN FuncResult("ExecuteError", log2, <<first, second>>)
        ELSE FuncResult("none",
                        log2 \o <<Info("Reconciling part 2 complete"),
                                  Info("Versions have been posted after reconciliation")>>,
                        <<first, second>>)

(***************************************************************************)
(* compressDB(sde).                                                        *)
(***************************************************************************)
compressDB(r) ==
    LET start == <<Info("Starting database compression")>>
        call == ToolCall("Compress", "", <<>>, r)
    IN  IF r = "error" THEN FuncResult("ExecuteError", start, <<call>>)
        ELSE FuncResult("none", start \o <<Info("Compression complete")>>, <<call>>)

(***************************************************************************)
(* rebuildIndex(sde).  listing is the outcome of the dataset listing and   *)
(* Describe calls (lines 192-204), r that of RebuildIndexes.  admin says   *)
(* whether the connected user is a geodatabase administrator; the code     *)
(* never looks at it.  The dataset list itself is left out.                *)
(***************************************************************************)
SystemOption(admin) == "NO_SYSTEM"

rebuildIndex(admin, listing, r) ==
    LET start == <<Info("Starting to rebuild indexes")>>
        filtering == start \o <<Info("Filtering dataset list")>>
        call == ToolCall("RebuildIndexes", SystemOption(admin), <<"ALL">>, r)
    IN  IF listing = "error" THEN FuncResult("ExecuteError", start, <<>>)
        ELSE IF r = "error" THEN FuncResult("ExecuteError", filtering, <<call>>)
        ELSE FuncResult("none", filtering \o <<Info("Rebuild complete")>>, <<call>>)

(***************************************************************************)
(* analyzeDatasets(sde).                                                   *)
(***************************************************************************)
analyzeDatasets(listing, r) ==
    LET start == <<Info("Starting to analyze datasets")>>
        call == ToolCall("AnalyzeDatasets", "NO_SYSTEM",
                         <<"ANALYZE_BASE", "ANALYZE_DELTA", "ANALYZE_ARCHIVE">>, r)
    IN  IF listing = "error" THEN FuncResult("ExecuteError", start, <<>>)
        ELSE IF r = "error" THEN FuncResult("ExecuteError", start, <<call>>)
        ELSE FuncResult("none", start \o <<Info("Analyze complete")>>, <<call>>)

(***************************************************************************)
(* deleteCxn(sde).  fs is the set of files that exist, rm the outcome of   *)
(* os.remove: "ok", "PermissionError", or "OSError" for any other OSError  *)
(* (the file vanished after the exists test, the path is a directory, an   *)
(* I/O error).                                                             *)
(***************************************************************************)
RemoveResults == {"ok", "PermissionError", "OSError"}

DeleteResult(e, l, f, d) == [exc |-> e, log |-> l, files |-> f, deleted |-> d]

\* Variant of deleteCxn without the else branch of line 283: a missing
\* file goes unreported.
deleteCxnSilentWhenMissing(path, fs, rm) ==
    LET start == <<Info("Starting to delete connection string")>> IN
    IF path \in fs
    THEN LET exists == start \o <<Info("File exists")>> IN
         CASE rm = "ok" ->
                DeleteResult("none", exists \o <<Info("File deleted")>>, fs \ {path}, {path})
           [] rm = "PermissionError" ->
                DeleteResult("none",
                             exists \o <<Warn("User does not have necessary permissions")>>,
                             fs, {})
           [] OTHER -> DeleteResult(rm, exists, fs, {})
    ELSE DeleteResult("none", start, fs, {})

deleteCxn(path, fs, rm) ==
    LET start == <<Info("Starting to delete connection string")>> IN
    IF path \in fs
    THEN LET exists == start \o <<Info("File exists")>> IN
         CASE rm = "ok" ->
                DeleteResult("none", exists \o <<Info("File deleted")>>, fs \ {path}, {path})
           [] rm = "PermissionError" ->
                DeleteResult("none",
                             exists \o <<Warn("User does not have necessary permissions")>>,
                             fs, {})
           [] OTHER -> DeleteResult(rm, exists, fs, {})
    ELSE DeleteResult("none", start \o <<Warn("Could not find connection file")>>, fs, {})

(***************************************************************************)
(* __main__, lines 324-338.                                                *)
(***************************************************************************)
\* The statements of the try block in the order they are written.
MainOrder == <<"buildCxn", "reconcileVersions", "compressDB", "rebuildIndex",
               "analyzeDatasets", "deleteCxn", "complete">>

\* Variant of After: compressDB and rebuildIndex change places.
AfterOutOfOrder(op) ==
    CASE op = "buildCxn" -> "reconcileVersions"
      [] op = "reconcileVersions" -> "rebuildIndex"
      [] op = "rebuildIndex" -> "compressDB"
      [] op = "compressDB" -> "analyzeDatasets"
      [] op = "analyzeDatasets" -> "deleteCxn"
      [] op = "deleteCxn" -> "complete"
      [] OTHER -> "done"

\* The statement that follows op when op returns.
After(op) ==
    LET i == CHOOSE k \in 1..Len(MainOrder) : MainOrder[k] = op
    IN  IF i < Len(MainOrder) THEN MainOrder[i + 1] ELSE "done"

\* Variant of ShouldDelete: the connection file is always cleaned up.
ShouldDeleteAlways(b) == TRUE

\* Line 330: if built.
ShouldDelete(b) == b # 0

\* Variant of Except: no handler, every exception ends the process.
ExceptUncaught(exc) == [log |-> <<>>, exitStatus |-> 1]

\* What happens to an exception that leaves a statement of the try block:
\* SystemExit is no Exception and ends the process with status 1; anything
\* else is caught on line 335, logged, and the script runs off its end.
Except(exc) ==
    IF exc = "SystemExit"
    THEN [log |-> <<>>, exitStatus |-> 1]
    ELSE [log |-> <<Error(exc), Error("DB maintenance failed to complete.")>>,
          exitStatus |-> 0]

CompletedMsg == Info("Completed DB maintenance!")

VARIABLES cfg, isAdmin, files, pc, sde, built, calls, completed, tools, log,
          failure, exitStatus, removed, listedVersions

vars == <<cfg, isAdmin, files, pc, sde, built, calls, completed, tools, log,
          failure, exitStatus, removed, listedVersions>>

Init ==
    /\ cfg \in Configs
    /\ isAdmin \in BOOLEAN
    /\ files \in {{}, {SuppliedPath}}
    /\ pc = "buildCxn"
    /\ sde = NoPath
    /\ built = 0
    /\ calls = <<>>
    /\ completed = <<>>
    /\ tools = <<>>
    /\ log = <<>>
    /\ failure = "none"
    /\ exitStatus = -1
    /\ removed = {}
    /\ listedVersions = <<>>

\* A statement of the try block, op, ended as r says.
Step(op, r) ==
    /\ calls' = Append(calls, op)
    /\ tools' = tools \o r.tools
    /\ failure' = r.exc
    /\ IF r.exc = "none"
       THEN /\ completed' = Append(completed, op)
            /\ pc' = After(op)
            /\ log' = log \o r.log
            /\ exitStatus' = exitStatus
       ELSE /\ completed' = completed
            /\ pc' = "done"
            /\ log' = log \o r.log \o Except(r.exc).log
            /\ exitStatus' = Except(r.exc).exitStatus

BuildCxn ==
    /\ pc = "buildCxn"
    /\ \E engine \in EngineResults :
         LET r == buildCxn(cfg, engine) IN
         /\ Step("buildCxn", r)
         /\ sde' = r.sde
         /\ built' = r.built
         /\ files' = IF r.built = 1 THEN files \cup {CreatedPath} ELSE files
    /\ UNCHANGED <<cfg, isAdmin, removed, listedVersions>>

ReconcileVersions ==
    /\ pc = "reconcileVersions"
    /\ \E listing \in EngineResults, listed \in VersionLists, r1, r2 \in EngineResults :
         /\ Step("reconcileVersions", reconcileVersions(listing, listed, r1, r2))
         /\ listedVersions' = IF listing = "ok" THEN listed ELSE listedVersions
    /\ UNCHANGED <<cfg, isAdmin, files, sde, built, removed>>

CompressDB ==
    /\ pc = "compressDB"
    /\ \E r \in EngineResults : Step("compressDB", compressDB(r))
    /\ UNCHANGED <<cfg, isAdmin, files, sde, built, removed, listedVersions>>

RebuildIndex ==
    /\ pc = "rebuildIndex"
    /\ \E listing, r \in EngineResults :
         Step("rebuildIndex", rebuildIndex(isAdmin, listing, r))
    /\ UNCHANGED <<cfg, isAdmin, files, sde, built, removed, listedVersions>>

AnalyzeDatasets ==
    /\ pc = "analyzeDatasets"
    /\ \E listing, r \in EngineResults :
         Step("analyzeDatasets", analyzeDatasets(listing, r))
    /\ UNCHANGED <<cfg, isAdmin, files, sde, built, removed, listedVersions>>

\* Lines 330-331: deleteCxn(sde) when built.
DeleteCxn ==
    /\ pc = "deleteCxn"
    /\ ShouldDelete(built)
    /\ \E rm \in RemoveResults :
         LET r == deleteCxn(sde, files, rm) IN
         /\ Step("deleteCxn", [exc |-> r.exc, log |-> r.log, tools |-> <<>>])
         /\ files' = r.files
         /\ removed' = removed \cup r.deleted
    /\ UNCHANGED <<cfg, isAdmin, sde, built, listedVersions>>

\* Line 330 when built is falsy: nothing to clean up.
SkipCleanup ==
    /\ pc = "deleteCxn"
    /\ ~ShouldDelete(built)
    /\ pc' = After("deleteCxn")
    /\ UNCHANGED <<cfg, isAdmin, files, sde, built, calls, completed, tools, log,
                   failure, exitStatus, removed, listedVersions>>

\* Line 333 and the end of the script.
Complete ==
    /\ pc = "complete"
    /\ log' = Append(log, CompletedMsg)
    /\ exitStatus' = 0
    /\ pc' = "done"
    /\ UNCHANGED <<cfg, isAdmin, files, sde, built, calls, completed, tools,
                   failure, removed, listedVersions>>

\* Somebody else removes a connection file while the run is in progress.
ExternalRemove ==
    /\ pc # "done"
    /\ \E p \in files : files' = files \ {p}
    /\ UNCHANGED <<cfg, isAdmin, pc, sde, built, calls, completed, tools, log,
                   failure, exitStatus, removed, listedVersions>>

Next ==
    \/ BuildCxn
    \/ ReconcileVersions
    \/ CompressDB
    \/ RebuildIndex
    \/ AnalyzeDatasets
    \/ DeleteCxn
    \/ SkipCleanup
    \/ Complete
    \/ ExternalRemove

Spec == Init /\ [][Next]_vars

(***************************************************************************)
(* Properties.                                                             *)
(***************************************************************************)
Range(q) == {q[i] : i \in 1..Len(q)}

IsPrefix(q, r) == Len(q) <= Len(r) /\ \A i \in 1..Len(q) : q[i] = r[i]

\* The functions of the script in the order the run is to call them.
CallOrder == <<"buildCxn", "reconcileVersions", "compressDB", "rebuildIndex",
               "analyzeDatasets", "deleteCxn">>

Maintenance == {"reconcileVersions", "compressDB", "rebuildIndex", "analyzeDatasets"}

IsReconcile(t) == t.tool = "ReconcileVersions"

\* The ReconcileVersions calls made so far, in order.
Passes == SelectSeq(tools, IsReconcile)

NotDefault(n) == n \notin {"SDE.DEFAULT", "sde.default"}

Warned == \E i \in 1..Len(log) : log[i][1] = "WARNING"

CreateFailed ==
    \E i \in 1..Len(tools) :
        tools[i].tool = "CreateDatabaseConnection" /\ tools[i].result = "error"

\* The configuration cannot be resolved: a required key is missing, or the
\* connection string is empty and so is one of the six connection parameters.
ConfigDefect ==
    \/ DOMAIN cfg # Keys
    \/ /\ ~Truthy(cfg["sde_cxn"])
       /\ \E i \in 1..Len(CxnVars) : ~Truthy(cfg[CxnVars[i]])

\* C1: the functions are invoked in the order buildCxn, reconcileVersions,
\* compressDB, rebuildIndex, analyzeDatasets, deleteCxn, each at most once;
\* a function is invoked only when all before it have returned without an
\* error; on a successful run only deleteCxn may be left out.
C1_OrderedEachOnce ==
    /\ IsPrefix(calls, CallOrder)
    /\ IsPrefix(completed, calls)
    /\ Len(calls) <= Len(completed) + 1
    /\ Len(calls) > Len(completed) => pc = "done"
    /\ (pc = "done" /\ failure = "none") => Len(calls) >= 5

C1_Witness == pc = "done" /\ failure = "none" /\ calls = CallOrder

\* C2 as claimed: at the end of every run the connection file has been
\* deleted by the run if and only if buildCxn created it (built = 1).
C2_DeletedIffBuilt == pc = "done" => (CreatedPath \in removed <=> built = 1)

\* C2 as amended: a file the run deletes is the one buildCxn created in
\* this run (built = 1); and a run that created its connection file and
\* ends as a success without a cleanup warning has deleted it.
C2_DeletedOnlyIfBuilt ==
    /\ removed # {} => (built = 1 /\ removed = {CreatedPath} /\ CreatedPath \notin files)
    /\ (pc = "done" /\ built = 1 /\ failure = "none" /\ ~Warned) => CreatedPath \in removed

C2_Witness ==
    pc = "done" /\ built = 1 /\ failure = "none" /\ CreatedPath \in removed

\* C3: in every state deleteCxn has been invoked at most once, never when
\* the connection came from the connection string of the configuration
\* (built = 0), and the run has not removed the supplied connection file.
C3_SuppliedNeverDeleted ==
    /\ Cardinality({i \in 1..Len(calls) : calls[i] = "deleteCxn"}) <= 1
    /\ "deleteCxn" \in Range(calls) => (built = 1 /\ sde = CreatedPath)
    /\ SuppliedPath \notin removed

C3_Witness ==
    /\ pc = "done" /\ failure = "none" /\ exitStatus = 0
    /\ sde = SuppliedPath /\ built = 0
    /\ SuppliedPath \in files
    /\ "analyzeDatasets" \in Range(completed)

\* C4 as claimed: with any required key missing from the configuration,
\* buildCxn fails and CreateDatabaseConnection is never called.
C4_MissingKeyFails ==
    ("buildCxn" \in Range(calls) /\ DOMAIN cfg # Keys) =>
        /\ "buildCxn" \notin Range(completed)
        /\ \A i \in 1..Len(tools) : tools[i].tool # "CreateDatabaseConnection"

\* C5 as claimed: when buildCxn fails because the configuration cannot be
\* resolved, the process ends at once with exit status 1 and nothing but
\* buildCxn has been invoked.
C5_ConfigFailureExitsNonZero ==
    ("buildCxn" \in Range(calls) /\ "buildCxn" \notin Range(completed) /\ ConfigDefect) =>
        /\ pc = "done"
        /\ exitStatus = 1
        /\ calls = <<"buildCxn">>

\* C6: when one of the four maintenance functions raises, nothing is
\* invoked after it (no later maintenance function, no deleteCxn), the
\* error is logged and the process ends with exit status 0.
C6_StepErrorAbortsQuietly ==
    \A m \in Maintenance :
        (m \in Range(calls) /\ m \notin Range(completed)) =>
            /\ pc = "done"
            /\ calls[Len(calls)] = m
            /\ "deleteCxn" \notin Range(calls)
            /\ exitStatus = 0
            /\ Error(failure) \in Range(log)
            /\ Error("DB maintenance failed to complete.") \in Range(log)
            /\ CompletedMsg \notin Range(log)

C6_Witness ==
    /\ pc = "done" /\ failure = "ExecuteError"
    /\ calls = <<"buildCxn", "reconcileVersions", "compressDB", "rebuildIndex">>
    /\ built = 1

\* C7 as claimed: a run that starts reconciling (the versions are listed
\* and the first ReconcileVersions call is made) always makes exactly two
\* calls, NO_POST then POST, over the same list of versions: the second
\* pass is never left out.
C7_AlwaysTwoPasses ==
    ("reconcileVersions" \in Range(calls) /\ Len(Passes) >= 1) =>
        /\ Len(Passes) = 2
        /\ Passes[1].opt = "NO_POST"
        /\ Passes[2].opt = "POST"
        /\ Passes[1].arg = Passes[2].arg

\* C7 as amended: reconcileVersions makes at most two ReconcileVersions
\* calls; the first is without posting, over the versions listed at call
\* time other than the default version; the second is made exactly when the
\* first returns without an error, with posting, over the same list, empty
\* or not; a reconcileVersions that returns has made both; none is made
\* only when listing the versions raised.
C7_TwoPassesUnlessFirstFails ==
    LET children == SelectSeq(listedVersions, NotDefault) IN
    /\ Len(Passes) <= 2
    /\ Len(Passes) >= 1 => (Passes[1].opt = "NO_POST" /\ Passes[1].arg = children)
    /\ Len(Passes) = 1 => Passes[1].result = "error"
    /\ Len(Passes) = 2 =>
          /\ Passes[1].result = "ok"
          /\ Passes[2].opt = "POST"
          /\ Passes[2].arg = Passes[1].arg
    /\ "reconcileVersions" \in Range(completed) => Len(Passes) = 2
    /\ ("reconcileVersions" \in Range(calls) /\ Len(Passes) = 0) =>
          (pc = "done" /\ failure = "ExecuteError" /\ calls[Len(calls)] = "reconcileVersions")

C7_Witness ==
    /\ "reconcileVersions" \in Range(completed)
    /\ Len(listedVersions) = 2
    /\ Len(Passes) = 2
    /\ Passes[2].arg = <<"GIS.edits">>

\* C8: when the engine raises while buildCxn creates the new connection,
\* the error is logged and the run ends there: buildCxn hands no connection
\* to the caller and nothing else is invoked.
C8_CreateErrorEndsRun ==
    CreateFailed =>
        /\ pc = "done"
        /\ calls = <<"buildCxn">>
        /\ completed = <<>>
        /\ sde = NoPath
        /\ Len(tools) = 1
        /\ Error("CreateDatabaseConnection failed") \in Range(log)
        /\ CompletedMsg \notin Range(log)

C8_Witness == CreateFailed /\ pc = "done" /\ exitStatus = 0

\* C9 as claimed: whenever deleteCxn is invoked and the connection file is
\* missing or cannot be deleted, a warning is logged, deleteCxn raises
\* nothing and the run ends as a success.
C9_CleanupFailureOnlyWarns ==
    (pc = "done" /\ "deleteCxn" \in Range(calls) /\ removed = {}) =>
        /\ Warned
        /\ failure = "none"
        /\ CompletedMsg \in Range(log)

\* C10 as claimed: rebuildIndex asks for the system indexes exactly when
\* the connected user is an administrator.
C10_SystemIndexesIffAdmin ==
    \A i \in 1..Len(tools) :
        tools[i].tool = "RebuildIndexes" =>
            tools[i].opt = (IF isAdmin THEN "SYSTEM" ELSE "NO_SYSTEM")
====
